---- MODULE Spec2Model ----
(***************************************************************************)
(* The scanner of LoxV1 (src/src/scanner/mod.rs) as a state machine.       *)
(*                                                                         *)
(* A character is a one-character string; a code point outside ASCII is    *)
(* written by its name ("U+00E9").  The buffer, a lexeme and a string      *)
(* literal are sequences of characters.  Offsets are those of the code     *)
(* (0-based, `current` is the number of characters consumed), so buf[i+1]  *)
(* here is self.buf[i] there.                                              *)
(***************************************************************************)
EXTENDS Integers, Sequences, FiniteSets, TLC

VARIABLES buf, start, current, line, tokens, errors, pc

vars == <<buf, start, current, line, tokens, errors, pc>>

(***************************************************************************)
(* Bounds of the model.                                                    *)
(***************************************************************************)
\* Every buffer over Alphabet of at most MaxLen characters is scanned.
MaxLen == 4

\* The same for the specification with fairness, whose check is costlier.
LiveLen == 2

(***************************************************************************)
(* Characters and their classes.                                           *)
(***************************************************************************)
\* What peek and peek_ahead return out of bounds: '\0'.
NUL == "U+0000"

Digits == {"0", "1", "2", "3", "4", "5", "6", "7", "8", "9"}

LowerLetters ==
    {"a", "b", "c", "d", "e", "f", "g", "h", "i", "j", "k", "l", "m",
     "n", "o", "p", "q", "r", "s", "t", "u", "v", "w", "x", "y", "z"}

UpperLetters ==
    {"A", "B", "C", "D", "E", "F", "G", "H", "I", "J", "K", "L", "M",
     "N", "O", "P", "Q", "R", "S", "T", "U", "V", "W", "X", "Y", "Z"}

\* Alphabetic code points outside ASCII (e acute, Greek lambda).
OtherLetters == {"U+00E9", "U+03BB"}

\* Numeric code points that are no radix-10 digit for char::is_digit
\* (Arabic-Indic digit three, vulgar fraction one half).
OtherNumerics == {"U+0663", "U+00BD"}

\* char::is_digit(10): the ASCII digits only.
IsDigit(c) == c \in Digits

\* char::is_alphabetic: the Unicode Alphabetic property.
IsAlphabetic(c) == c \in LowerLetters \cup UpperLetters \cup OtherLetters

\* char::is_alphanumeric: Alphabetic or Numeric.
IsAlphanumeric(c) == IsAlphabetic(c) \/ c \in Digits \cup OtherNumerics

DigitValue(c) ==
    CASE c = "0" -> 0 [] c = "1" -> 1 [] c = "2" -> 2 [] c = "3" -> 3
      [] c = "4" -> 4 [] c = "5" -> 5 [] c = "6" -> 6 [] c = "7" -> 7
      [] c = "8" -> 8 [] c = "9" -> 9

(***************************************************************************)
(* Tokens (src/src/tokens.rs).                                             *)
(***************************************************************************)
\* TLit: a tagged union; val is the payload (absent payload: the empty text).
LitNull == [tag |-> "Null", val |-> <<>>]
LitNumber(n) == [tag |-> "Number", val |-> n]
LitString(s) == [tag |-> "String", val |-> s]
LitBool(b) == [tag |-> "Bool", val |-> b]

\* Token::new
Token(ty, lexeme, literal, ln) ==
    [ty |-> ty, lexeme |-> lexeme, literal |-> literal, line |-> ln]

\* The arms of scan_token's match that yield a token kind at once.
SingleKind(c) ==
    CASE c = "(" -> "LParen" [] c = ")" -> "RParen"
      [] c = "{" -> "LBrace" [] c = "}" -> "RBrace"
      [] c = "," -> "Comma" [] c = "." -> "Period"
      [] c = "-" -> "Minus" [] c = "+" -> "Plus"
      [] c = ";" -> "Semicolon" [] c = "*" -> "Asterisk"

SingleChars == {"(", ")", "{", "}", ",", ".", "-", "+", ";", "*"}

OperatorChars == {"!", "=", "<", ">"}

\* The `yes` and `no` kinds scan_token hands to expect_many for each operator.
CompoundKind(c) ==
    CASE c = "!" -> "BangEq" [] c = "=" -> "EqEq"
      [] c = "<" -> "LtEq" [] c = ">" -> "GtEq"

BareKind(c) ==
    CASE c = "!" -> "Bang" [] c = "=" -> "Eq"
      [] c = "<" -> "Lt" [] c = ">" -> "Gt"

WhitespaceChars == {" ", "\r", "\t"}


(***************************************************************************)
(* The scanner: a record s of the fields of struct Scanner, with pc and    *)
(* errors beside them.  pc is where scan_tokens is: "scan" in its loop,    *)
(* "done" once it has returned the token list, "panic" if the number parse *)
(* has failed, "bounds" if an index past the end of buf has panicked.      *)
(* errors is what error_log::error has written.                            *)
(***************************************************************************)
\* Scanner::reached_eof
ReachedEof(s) == s.current >= Len(s.buf)

\* Scanner::peek
Peek(s) == IF ReachedEof(s) THEN NUL ELSE s.buf[s.current + 1]

\* Scanner::peek_ahead
PeekAhead(s, offset) ==
    IF s.current + offset >= Len(s.buf) THEN NUL ELSE s.buf[s.current + offset + 1]

\* Scanner::advance: the scanner after it (it returns buf[current - 1], and
\* that index panics when current was already the length of buf).  The
\* scanner it is applied to is evaluated once, as the one value it is.
Advance(s) ==
    LET Moved(x) ==
            IF x.pc # "scan" THEN x
            ELSE IF ReachedEof(x) THEN [x EXCEPT !.current = @ + 1, !.pc = "bounds"]
            ELSE [x EXCEPT !.current = @ + 1]
    IN  CHOOSE t \in {Moved(x) : x \in {s}} : TRUE

\* span_string taking the buffer from its first character: buf[.. current].
SpanStringFromZero(s) == SubSeq(s.buf, 1, s.current)

\* Scanner::span_string: self.buf[self.start .. self.current]
SpanString(s) == SubSeq(s.buf, s.start + 1, s.current)

\* expect_many with the guard that lets a match end at the end of the buffer.
ExpectManyToEnd(s, expected, yes, no) ==
    IF s.current + Len(expected) > Len(s.buf)
    THEN [ty |-> no, self |-> s]
    ELSE IF SubSeq(s.buf, s.current + 1, s.current + Len(expected)) # expected
         THEN [ty |-> no, self |-> s]
         ELSE [ty |-> yes, self |-> [s EXCEPT !.current = @ + Len(expected)]]

\* Scanner::expect_many: the kind it returns and the scanner after it.
ExpectMany(s, expected, yes, no) ==
    IF s.current + Len(expected) >= Len(s.buf)
    THEN [ty |-> no, self |-> s]
    ELSE IF SubSeq(s.buf, s.current + 1, s.current + Len(expected)) # expected
         THEN [ty |-> no, self |-> s]
         ELSE [ty |-> yes, self |-> [s EXCEPT !.current = @ + Len(expected)]]

\* add_token_lit storing the new token in place of the list.
AddTokenLitReplacing(s, ty, lit) ==
    IF s.pc # "scan" THEN s
    ELSE [s EXCEPT !.tokens = <<Token(ty, SpanString(s), lit, s.line)>>]

\* Scanner::add_token_lit
AddTokenLit(s, ty, lit) ==
    IF s.pc # "scan" THEN s
    ELSE [s EXCEPT !.tokens = Append(@, Token(ty, SpanString(s), lit, s.line))]

\* Scanner::add_token
AddToken(s, ty) == AddTokenLit(s, ty, LitNull)

\* error_log::error: one more report on the diagnostic stream.
Error(s, ln, message) ==
    IF s.pc # "scan" THEN s
    ELSE [s EXCEPT !.errors = Append(@, [line |-> ln, message |-> message])]

\* The loop of the line comment arm of scan_token.
RECURSIVE SkipComment(_)
SkipComment(s) ==
    IF Peek(s) # "\n" /\ ~ReachedEof(s) THEN SkipComment(Advance(s)) ELSE s

\* The loop of expect_string without its newline test.
RECURSIVE StringLoopNoLine(_)
StringLoopNoLine(s) ==
    IF Peek(s) # "\"" /\ ~ReachedEof(s) THEN StringLoopNoLine(Advance(s)) ELSE s

\* The loop of expect_string.
RECURSIVE StringLoop(_)
StringLoop(s) ==
    IF Peek(s) # "\"" /\ ~ReachedEof(s)
    THEN StringLoop(Advance(IF Peek(s) = "\n" THEN [s EXCEPT !.line = @ + 1] ELSE s))
    ELSE s

\* span[1 .. span.len()]: the closing quote kept.
StringLiteralToEnd(span) == SubSeq(span, 2, Len(span))

\* span[1 .. span.len() - 1]: the span without its first and last character
\* (both are quotes, one byte each, so the byte range is that of the characters).
StringLiteral(span) == SubSeq(span, 2, Len(span) - 1)

\* expect_string reporting the line of the opening quote.
ExpectStringStartLine(s) ==
    LET r == StringLoop(s)
    IN  IF ReachedEof(r)
        THEN Error(r, s.line, "Unterminated string literal.")
        ELSE LET a == Advance(r)
             IN  AddTokenLit(a, "String", LitString(StringLiteral(SpanString(a))))

\* expect_string without its end-of-input test after the loop.
ExpectStringNoEofTest(s) ==
    LET a == Advance(StringLoop(s))
    IN  AddTokenLit(a, "String", LitString(StringLiteral(SpanString(a))))

\* Scanner::expect_string
ExpectString(s) ==
    LET r == StringLoop(s)
    IN  IF ReachedEof(r)
        THEN Error(r, r.line, "Unterminated string literal.")
        ELSE LET a == Advance(r)
             IN  AddTokenLit(a, "String", LitString(StringLiteral(SpanString(a))))

\* The first loop of expect_number.
RECURSIVE SkipDigits(_)
SkipDigits(s) ==
    IF IsDigit(Peek(s)) /\ ~ReachedEof(s) THEN SkipDigits(Advance(s)) ELSE s

\* The loop of the fractional part taking every `.` as it takes a digit.
RECURSIVE SkipFractionOrDot(_)
SkipFractionOrDot(s) ==
    IF IsDigit(Peek(s)) \/ Peek(s) = "." THEN SkipFractionOrDot(Advance(s)) ELSE s

\* The loop of the fractional part of expect_number.
RECURSIVE SkipFraction(_)
SkipFraction(s) == IF IsDigit(Peek(s)) THEN SkipFraction(Advance(s)) ELSE s

\* The loop of expect_ident stopping at the first character that is no letter.
RECURSIVE SkipAlphabetic(_)
SkipAlphabetic(s) ==
    IF IsAlphabetic(Peek(s)) THEN SkipAlphabetic(Advance(s)) ELSE s

\* The loop of expect_ident.
RECURSIVE SkipAlphanumeric(_)
SkipAlphanumeric(s) ==
    IF IsAlphanumeric(Peek(s)) THEN SkipAlphanumeric(Advance(s)) ELSE s

\* The match of expect_ident on the span.
KeywordKind(span) ==
    CASE span = <<"a", "n", "d">> -> "And"
      [] span = <<"c", "l", "a", "s", "s">> -> "Class"
      [] span = <<"e", "l", "s", "e">> -> "Else"
      [] span = <<"f", "o", "r">> -> "For"
      [] span = <<"f", "n">> -> "Fn"
      [] span = <<"i", "f">> -> "If"
      [] span = <<"n", "u", "l", "l">> -> "Null"
      [] span = <<"o", "r">> -> "Or"
      [] span = <<"p", "r", "i", "n", "t">> -> "Print"
      [] span = <<"r", "e", "t">> -> "Return"
      [] span = <<"s", "u", "p", "e", "r">> -> "Super"
      [] span = <<"s", "e", "l", "f">> -> "This"
      [] span = <<"v", "a", "r">> -> "Var"
      [] span = <<"w", "h", "i", "l", "e">> -> "While"
      [] span = <<"T", "r", "u", "e">> -> "True"
      [] span = <<"F", "a", "l", "s", "e">> -> "False"
      [] OTHER -> "Ident"

\* expect_ident leaving True and False to add_token like the other words.
KeywordLiteralNone(ty) == LitNull

\* The literal expect_ident attaches: a boolean for True and False.
KeywordLiteral(ty) ==
    IF ty = "True" THEN LitBool(TRUE)
    ELSE IF ty = "False" THEN LitBool(FALSE)
    ELSE LitNull

(***************************************************************************)
(* str::parse::<f64> on the texts made of digits and dots: a text with at  *)
(* least one digit and at most one dot parses, to the decimal it writes;   *)
(* any other fails.  The value is kept exactly, as mant / 10^scale with no *)
(* trailing zero in the fraction (exact for f64 below 2^53).               *)
(***************************************************************************)
RECURSIVE CountChar(_, _)
CountChar(s, c) ==
    IF s = <<>> THEN 0
    ELSE (IF Head(s) = c THEN 1 ELSE 0) + CountChar(Tail(s), c)

RECURSIVE DigitsValue(_)
DigitsValue(s) ==
    IF s = <<>> THEN 0
    ELSE DigitsValue(SubSeq(s, 1, Len(s) - 1)) * 10 + DigitValue(s[Len(s)])

RECURSIVE Normalise(_, _)
Normalise(m, k) ==
    IF k > 0 /\ m % 10 = 0 THEN Normalise(m \div 10, k - 1)
    ELSE [mant |-> m, scale |-> k]

IsFloatText(s) ==
    /\ \A i \in 1..Len(s) : IsDigit(s[i]) \/ s[i] = "."
    /\ CountChar(s, ".") <= 1
    /\ \E i \in 1..Len(s) : IsDigit(s[i])

ParseF64(s) ==
    IF ~IsFloatText(s) THEN [ok |-> FALSE, mant |-> 0, scale |-> 0]
    ELSE LET ds == SelectSeq(s, IsDigit)
             dot == CHOOSE i \in 1..(Len(s) + 1) :
                        (i <= Len(s) /\ s[i] = ".")
                        \/ (i = Len(s) + 1 /\ CountChar(s, ".") = 0)
             n == Normalise(DigitsValue(ds), IF dot > Len(s) THEN 0 ELSE Len(s) - dot)
         IN  [ok |-> TRUE, mant |-> n.mant, scale |-> n.scale]

\* expect_number taking the dot whatever follows it.
ExpectNumberAnyDot(s) ==
    LET d == SkipDigits(s)
        f == IF Peek(d) = "." THEN SkipFraction(Advance(d)) ELSE d
        parsed == ParseF64(SpanString(f))
    IN  IF parsed.ok
        THEN AddTokenLit(f, "Number",
                 LitNumber([mant |-> parsed.mant, scale |-> parsed.scale]))
        ELSE [f EXCEPT !.pc = "panic"]

\* Scanner::expect_number; a failed parse is the panic of expect("Invalid digit").
ExpectNumber(s) ==
    LET d == SkipDigits(s)
        f == IF Peek(d) = "." /\ IsDigit(PeekAhead(d, 1))
             THEN SkipFraction(Advance(d))
             ELSE d
        parsed == ParseF64(SpanString(f))
    IN  IF parsed.ok
        THEN AddTokenLit(f, "Number",
                 LitNumber([mant |-> parsed.mant, scale |-> parsed.scale]))
        ELSE [f EXCEPT !.pc = "panic"]

\* Scanner::expect_ident
ExpectIdent(s) ==
    LET a == SkipAlphanumeric(s)
        ty == KeywordKind(SpanString(a))
    IN  AddTokenLit(a, ty, KeywordLiteral(ty))

(***************************************************************************)
(* The source texts scanned.                                               *)
(***************************************************************************)
\* The characters of the exhaustively enumerated buffers: an operator start,
\* `=`, `/`, a quote, a newline, a space, a digit, a dot, a letter and a
\* character no arm of scan_token accepts.
Alphabet == {"!", "=", "/", "\"", "\n", " ", "1", ".", "a", "@"}

\* Longer programs and the characters Alphabet leaves out.
Samples ==
    {<<"v", "a", "r", " ", "x", " ", "=", " ", "1", "2", ".", "5", ";">>,
     <<"\"", "a", "b", "c">>,
     <<"T", "r", "u", "e", " ", "F", "a", "l", "s", "e", " ", "1", " ", "\"", "a", "\"",
       " ", "n", "u", "l", "l", " ", "x">>,
     <<"1", "2", ".", "5", " ", "5", ".">>,
     <<"1", "1", ".", "1", ".", "1">>,
     <<"a", " ", "\t", "\r", "\n", "/", "/", " ", "c", "\n", "@", " ", "b", " ",
       "\"", "x", "\n", "y">>,
     <<"\"", "a", " ", "b", "\"", "\t", "/", "/", " ", "c", "\r", "\n", "x">>,
     <<"\"", "\"", " ", "\"", "\n", "\"">>,
     <<"1", "\n", "\"", "a", "\n", "b">>,
     <<"/", "/", " ", "a", "\n", "+">>,
     <<"i", "f", "x">>,
     <<"I", "f">>,
     <<"I", "F">>,
     <<"t", "r", "u", "e">>,
     <<"f", "a", "l", "s", "e">>,
     <<"T", "r", "u", "e">>,
     <<"F", "a", "l", "s", "e">>,
     <<"T", "r", "u", "e", "x">>,
     <<"a", "n", "d", "1">>,
     <<"U+00E9">>,
     <<"a", "U+00E9", "1">>,
     <<"a", "U+0663">>,
     <<"U+0663">>,
     <<"U+00BD">>,
     <<"U+03BB", "=", "1">>,
     <<"<", "=">>,
     <<"<", "=", " ">>,
     <<">", "=", ";">>,
     <<"<">>,
     <<">", "1">>,
     <<"=", "=", "(">>,
     <<"!", "=", "!", "=">>,
     <<"=">>,
     <<"a", "=", "=", "\"", "b", "\"">>,
     <<"(", ")", "{", "}", ",", ".", "-", "+", ";", "*">>,
     <<"a", "U+0000">>,
     <<"U+0000">>,
     <<"\"", "U+0000", "\"">>,
     <<"\t", "1", "\r", "\n", "2">>,
     <<"\"", "a", "\n", "b", "\"", " ", "+">>,
     <<"\"", "a", "\n">>,
     <<"1", "2", ".", "5", ".", "5">>,
     <<"0", ".", "5", "0">>,
     <<"1", "0">>,
     <<"0", "0", "7">>,
     <<"1", ".", "a">>,
     <<"a", ".", "1">>,
     <<"/", "/">>,
     <<"/", "/", "\n">>,
     <<"/", " ", "/">>,
     <<"a", "/", "b">>,
     <<"#">>,
     <<"a", "#", "b">>,
     <<"1", "@", "2">>,
     <<"\"", "\"">>,
     <<"\"", "\"", " ", "\"", "\"">>,
     <<"a", "n", "d">>,
     <<"c", "l", "a", "s", "s">>,
     <<"e", "l", "s", "e">>,
     <<"f", "o", "r">>,
     <<"f", "n">>,
     <<"i", "f">>,
     <<"n", "u", "l", "l">>,
     <<"o", "r">>,
     <<"p", "r", "i", "n", "t">>,
     <<"r", "e", "t">>,
     <<"s", "u", "p", "e", "r">>,
     <<"s", "e", "l", "f">>,
     <<"v", "a", "r">>,
     <<"w", "h", "i", "l", "e">>}

Inputs == UNION {[1..n -> Alphabet] : n \in 0..MaxLen} \cup Samples

LiveInputs == UNION {[1..n -> Alphabet] : n \in 0..LiveLen} \cup Samples


(***************************************************************************)
(* scan_token, arm by arm.  Each arm takes the scanner as the loop of      *)
(* scan_tokens hands it over, and starts as scan_token does: the span      *)
(* start is set and the first character consumed.                          *)
(***************************************************************************)
\* self.start = self.current of scan_tokens, then the advance of scan_token.
\* The start of scan_token without `self.start = self.current`.
BeginKeepStart(s) == Advance(s)

Begin(s) == Advance([s EXCEPT !.start = s.current])

\* The character that advance returns.
CharAt(s) == s.buf[s.current + 1]

\* The characters of the arms before the catch-all arm.
ArmChars ==
    SingleChars \cup OperatorChars \cup WhitespaceChars \cup {"/", "\"", "\n"}

SingleArm(s) == AddToken(Begin(s), SingleKind(CharAt(s)))

OperatorArm(s) ==
    LET m == ExpectMany(Begin(s), <<"=">>, CompoundKind(CharAt(s)), BareKind(CharAt(s)))
    IN  AddToken(m.self, m.ty)

SlashArm(s) ==
    LET m == ExpectMany(Begin(s), <<"/">>, "Null", "FSlash")
    IN  IF m.ty = "Null" THEN SkipComment(m.self) ELSE AddToken(m.self, "FSlash")

StringArm(s) == ExpectString(Begin(s))

\* The whitespace arm without the advance of scan_token.
WhitespaceArmNoAdvance(s) == [s EXCEPT !.start = s.current]

WhitespaceArm(s) == Begin(s)

NewlineArm(s) == [Begin(s) EXCEPT !.line = @ + 1]

NumberArm(s) == ExpectNumber(Begin(s))

IdentArm(s) == ExpectIdent(Begin(s))

\* The catch-all arm counting the character as the end of a line.
UnexpectedArmNewLine(s) ==
    LET t == [Begin(s) EXCEPT !.line = @ + 1] IN Error(t, t.line, "Unexpected char.")

UnexpectedArm(s) == LET t == Begin(s) IN Error(t, t.line, "Unexpected char.")

\* The arm the match of scan_token selects for character c.
Arm(c) ==
    CASE c \in SingleChars -> "single"
      [] c \in OperatorChars -> "operator"
      [] c = "/" -> "slash"
      [] c = "\"" -> "string"
      [] c \in WhitespaceChars -> "whitespace"
      [] c = "\n" -> "newline"
      [] OTHER -> IF IsDigit(c) THEN "number"
                  ELSE IF IsAlphabetic(c) THEN "ident"
                  ELSE "unexpected"

\* One iteration of the loop of scan_tokens.
ScanToken(s) ==
    LET a == Arm(CharAt(s))
    IN  CASE a = "single" -> SingleArm(s)
          [] a = "operator" -> OperatorArm(s)
          [] a = "slash" -> SlashArm(s)
          [] a = "string" -> StringArm(s)
          [] a = "whitespace" -> WhitespaceArm(s)
          [] a = "newline" -> NewlineArm(s)
          [] a = "number" -> NumberArm(s)
          [] a = "ident" -> IdentArm(s)
          [] a = "unexpected" -> UnexpectedArm(s)

\* The EOF token pushed with add_token, which gives it the last span as lexeme.
PushEofOfSpan(s) == [AddToken(s, "EOF") EXCEPT !.pc = "done"]

\* The end of scan_tokens: the EOF token, and the list is returned.
PushEof(s) ==
    [s EXCEPT !.tokens = Append(@, Token("EOF", <<>>, LitNull, s.line)),
              !.pc = "done"]

\* Scanner::new
New(source) ==
    [buf |-> source, start |-> 0, current |-> 0, line |-> 1,
     tokens |-> <<>>, errors |-> <<>>, pc |-> "scan"]

\* Scanner::scan_tokens from scanner s, run to its end.
RECURSIVE ScanTokens(_)
ScanTokens(s) ==
    IF s.pc # "scan" THEN s
    ELSE IF ReachedEof(s) THEN PushEof(s)
    ELSE ScanTokens(ScanToken(s))

(***************************************************************************)
(* The state machine: one action per arm of scan_token, and one for the    *)
(* end of scan_tokens.                                                     *)
(***************************************************************************)
\* The scanner of the current state.
Self ==
    [buf |-> buf, start |-> start, current |-> current, line |-> line,
     tokens |-> tokens, errors |-> errors, pc |-> pc]

\* The next state's scanner is s.
Becomes(s) ==
    /\ buf' = s.buf
    /\ start' = s.start
    /\ current' = s.current
    /\ line' = s.line
    /\ tokens' = s.tokens
    /\ errors' = s.errors
    /\ pc' = s.pc

\* The state whose scanner is s.
Holds(s) ==
    /\ buf = s.buf
    /\ start = s.start
    /\ current = s.current
    /\ line = s.line
    /\ tokens = s.tokens
    /\ errors = s.errors
    /\ pc = s.pc

Init == \E source \in Inputs : Holds(New(source))

\* The loop test of scan_tokens: another scan_token call follows.
Scanning == pc = "scan" /\ ~ReachedEof(Self)

ScanSingle ==
    /\ Scanning
    /\ Arm(CharAt(Self)) = "single"
    /\ \E next \in {SingleArm(Self)} : Becomes(next)

ScanOperator ==
    /\ Scanning
    /\ Arm(CharAt(Self)) = "operator"
    /\ \E next \in {OperatorArm(Self)} : Becomes(next)

ScanSlash ==
    /\ Scanning
    /\ Arm(CharAt(Self)) = "slash"
    /\ \E next \in {SlashArm(Self)} : Becomes(next)

ScanString ==
    /\ Scanning
    /\ Arm(CharAt(Self)) = "string"
    /\ \E next \in {StringArm(Self)} : Becomes(next)

ScanWhitespace ==
    /\ Scanning
    /\ Arm(CharAt(Self)) = "whitespace"
    /\ \E next \in {WhitespaceArm(Self)} : Becomes(next)

ScanNewline ==
    /\ Scanning
    /\ Arm(CharAt(Self)) = "newline"
    /\ \E next \in {NewlineArm(Self)} : Becomes(next)

ScanNumber ==
    /\ Scanning
    /\ Arm(CharAt(Self)) = "number"
    /\ \E next \in {NumberArm(Self)} : Becomes(next)

ScanIdent ==
    /\ Scanning
    /\ Arm(CharAt(Self)) = "ident"
    /\ \E next \in {IdentArm(Self)} : Becomes(next)

ScanUnexpected ==
    /\ Scanning
    /\ Arm(CharAt(Self)) = "unexpected"
    /\ \E next \in {UnexpectedArm(Self)} : Becomes(next)

Finish ==
    /\ pc = "scan"
    /\ ReachedEof(Self)
    /\ \E next \in {PushEof(Self)} : Becomes(next)

Next ==
    \/ ScanSingle
    \/ ScanOperator
    \/ ScanSlash
    \/ ScanString
    \/ ScanWhitespace
    \/ ScanNewline
    \/ ScanNumber
    \/ ScanIdent
    \/ ScanUnexpected
    \/ Finish

Spec == Init /\ [][Next]_vars

InitLive == \E source \in LiveInputs : Holds(New(source))

\* scan_tokens runs without interruption: a step that can be taken is taken.
FairSpec == InitLive /\ [][Next]_vars /\ WF_vars(Next)

(***************************************************************************)
(* The claims.                                                             *)
(***************************************************************************)
\* C1: the token list scan_tokens returns holds exactly one EOF token, the
\* last one, with an empty lexeme and the Null literal, and no other token
\* has an empty lexeme; no EOF token is in the list before scan_tokens ends.
C1_EofOnceAndLast ==
    /\ pc = "done" => Len(tokens) >= 1
    /\ \A i \in 1..Len(tokens) :
        /\ tokens[i].ty = "EOF" <=> (pc = "done" /\ i = Len(tokens))
        /\ tokens[i].lexeme = <<>> <=> tokens[i].ty = "EOF"
        /\ tokens[i].ty = "EOF" => tokens[i].literal = LitNull

\* A finished scan with tokens before the EOF token.
C1_Witness == pc = "done" /\ Len(tokens) >= 3

\* C2: scan_tokens terminates and returns: every scan_token call advances
\* current by at least 1 and stays in the loop, current never decreases nor
\* passes the buffer length, and at the buffer length the loop ends; invalid
\* characters and unterminated strings included.
C2_Terminates ==
    /\ [][/\ current' >= current
          /\ current' <= Len(buf)
          /\ Scanning => (current' >= current + 1 /\ pc' = "scan")
          /\ (pc = "scan" /\ current >= Len(buf)) => pc' = "done"]_vars
    /\ <>(pc = "done")

\* A scan that ended after both kinds of lexical error.
C2_Witness ==
    /\ pc = "done"
    /\ \E i, j \in 1..Len(errors) :
        /\ errors[i].message = "Unexpected char."
        /\ errors[j].message = "Unterminated string literal."

(***************************************************************************)
(* What the claims read of a step: the character scan_token consumes       *)
(* first, the character after it, and counts of newlines.                  *)
(***************************************************************************)
\* The character at offset current, and whether `c` is the one after it.
Ch == buf[current + 1]

FollowedBy(c) == current + 2 <= Len(buf) /\ buf[current + 2] = c

\* The number of newlines among buf[from .. to] (1-based, inclusive).
Newlines(from, to) == Cardinality({i \in from..to : buf[i] = "\n"})

\* C3: on `!`, `=`, `<` or `>` followed by `=`, both characters are consumed
\* and one compound token with the two-character lexeme is emitted; otherwise
\* one bare token is emitted and the next character is left unconsumed.
C3_CompoundWheneverFollowedByEq ==
    [][(Scanning /\ Ch \in {"!", "=", "<", ">"}) =>
        LET compound == CASE Ch = "!" -> "BangEq" [] Ch = "=" -> "EqEq"
                          [] Ch = "<" -> "LtEq" [] Ch = ">" -> "GtEq"
            bare == CASE Ch = "!" -> "Bang" [] Ch = "=" -> "Eq"
                      [] Ch = "<" -> "Lt" [] Ch = ">" -> "Gt"
        IN  IF FollowedBy("=")
            THEN /\ current' = current + 2
                 /\ tokens' = Append(tokens, Token(compound, <<Ch, "=">>, LitNull, line))
            ELSE /\ current' = current + 1
                 /\ tokens' = Append(tokens, Token(bare, <<Ch>>, LitNull, line))]_vars

\* The offset at which a line comment that starts at offset current ends:
\* that of the next newline, or the buffer length.
CommentEnd ==
    CHOOSE e \in (current + 2)..Len(buf) :
        /\ \A i \in (current + 3)..e : buf[i] # "\n"
        /\ e = Len(buf) \/ buf[e + 1] = "\n"

\* C4: on `/` followed by `/`, everything up to the next newline or the end
\* of input is consumed and no token emitted, the newline is left; on `/`
\* not followed by `/`, one FSlash token is emitted.  `// a\n+` yields Plus
\* on line 2 and EOF.
C4_CommentWheneverFollowedBySlash ==
    /\ [][(Scanning /\ Ch = "/") =>
            IF FollowedBy("/")
            THEN /\ current' = CommentEnd
                 /\ tokens' = tokens
                 /\ line' = line
            ELSE /\ current' = current + 1
                 /\ tokens' = Append(tokens, Token("FSlash", <<"/">>, LitNull, line))]_vars
    /\ []((pc = "done" /\ buf = <<"/", "/", " ", "a", "\n", "+">>) =>
            tokens = <<Token("Plus", <<"+">>, LitNull, 2), Token("EOF", <<>>, LitNull, 2)>>)

\* C5: the line counter is 1 plus the number of newlines among the characters
\* consumed so far; the lines of the tokens are non-decreasing; the line of
\* the EOF token is 1 plus the number of newlines of the source.
C5_LineCountsNewlines ==
    /\ line = 1 + Newlines(1, current)
    /\ \A i \in 1..(Len(tokens) - 1) : tokens[i].line <= tokens[i + 1].line
    /\ pc = "done" => tokens[Len(tokens)].line = 1 + Newlines(1, Len(buf))

\* A finished scan with a newline inside a string literal and one after it.
C5_Witness ==
    /\ pc = "done"
    /\ line = 3
    /\ \E i \in 1..Len(tokens) : tokens[i].ty = "String" /\ tokens[i].line = 2

\* The 1-based index of the first quote after the one at offset current.
ClosingQuote ==
    CHOOSE j \in (current + 2)..Len(buf) :
        buf[j] = "\"" /\ \A i \in (current + 2)..(j - 1) : buf[i] # "\""

\* C6: on a quote with a later quote in the buffer, one String token is
\* emitted: its lexeme runs from the opening quote through the first
\* following quote, its literal is that text without the two quotes, its line
\* is the starting line plus the number of newlines inside the literal.
C6_StringToken ==
    [][(Scanning /\ Ch = "\"" /\ \E j \in (current + 2)..Len(buf) : buf[j] = "\"") =>
        LET j == ClosingQuote
            ln == line + Newlines(current + 2, j - 1)
        IN  /\ current' = j
            /\ line' = ln
            /\ errors' = errors
            /\ tokens' = Append(tokens,
                   Token("String", SubSeq(buf, current + 1, j),
                         LitString(SubSeq(buf, current + 2, j - 1)), ln))]_vars

\* An empty string literal, then one that spans two lines.
C6_Witness ==
    \E i, j \in 1..Len(tokens) :
        /\ tokens[i].ty = "String" /\ tokens[i].literal = LitString(<<>>)
        /\ tokens[j].ty = "String" /\ tokens[j].line = 2
           /\ tokens[j].literal = LitString(<<"\n">>)

\* C7: on a quote with no later quote in the buffer, the rest of the buffer
\* is consumed and no token emitted for it, one "Unterminated string literal"
\* error is reported at the line counter's value at the end of input, the
\* tokens emitted before are unchanged, and the EOF token follows at once.
C7_UnterminatedString ==
    [][/\ (Scanning /\ Ch = "\"" /\ \A j \in (current + 2)..Len(buf) : buf[j] # "\"") =>
            /\ current' = Len(buf)
            /\ line' = line + Newlines(current + 2, Len(buf))
            /\ line' = 1 + Newlines(1, Len(buf))
            /\ tokens' = tokens
            /\ errors' = Append(errors,
                   [line |-> line', message |-> "Unterminated string literal."])
            /\ pc' = "scan"
       /\ (/\ pc = "scan"
           /\ errors # <<>>
           /\ errors[Len(errors)].message = "Unterminated string literal.") =>
            /\ tokens' = Append(tokens, Token("EOF", <<>>, LitNull, line))
            /\ errors' = errors
            /\ pc' = "done"]_vars

\* A finished scan whose string, opened after a token, ran over a newline to
\* the end of input.
C7_Witness ==
    /\ pc = "done"
    /\ Len(tokens) = 2
    /\ errors = <<[line |-> 3, message |-> "Unterminated string literal."]>>

\* The characters of the arms of scan_token, as the claim lists them.
Accepted(c) ==
    \/ c \in {"(", ")", "{", "}", ",", ".", "-", "+", ";", "*"}
    \/ c \in {"!", "=", "<", ">", "/", "\""}
    \/ c \in {" ", "\r", "\t", "\n"}
    \/ IsDigit(c)
    \/ IsAlphabetic(c)

\* C8: on a character of no arm, one "Unexpected char" error is reported at
\* the current line, that one character is consumed, the token list and the
\* line counter are unchanged, and the scan goes on: from there it yields
\* the tokens, and the later errors, of the buffer with a space in the place
\* of the character.
C8_UnexpectedChar ==
    /\ [][(Scanning /\ ~Accepted(Ch)) =>
            /\ current' = current + 1
            /\ line' = line
            /\ tokens' = tokens
            /\ errors' = Append(errors, [line |-> line, message |-> "Unexpected char."])
            /\ pc' = "scan"]_vars
    /\ []((Scanning /\ ~Accepted(Ch)) =>
            LET here == ScanTokens(Self)
                spaced == ScanTokens([Self EXCEPT !.buf[current + 1] = " "])
            IN  /\ here.pc = "done"
                /\ here.tokens = spaced.tokens
                /\ here.errors =
                       Append(errors, [line |-> line, message |-> "Unexpected char."])
                       \o SubSeq(spaced.errors, Len(errors) + 1, Len(spaced.errors)))

\* An invalid character between two tokens of a finished scan.
C8_Witness ==
    /\ pc = "done"
    /\ Len(tokens) = 3
    /\ errors = <<[line |-> 1, message |-> "Unexpected char."]>>
    /\ \E i \in 2..(Len(buf) - 1) : ~Accepted(buf[i])

\* The 1-based index of the last character of the maximal run of decimal
\* digits that starts at index from (from - 1 if there is none).
DigitRunEnd(from) ==
    CHOOSE e \in (from - 1)..Len(buf) :
        /\ \A i \in from..e : buf[i] \in {"0", "1", "2", "3", "4", "5", "6", "7", "8", "9"}
        /\ e = Len(buf) \/ buf[e + 1] \notin {"0", "1", "2", "3", "4", "5", "6", "7", "8", "9"}

\* C9: on a decimal digit one Number token is emitted; its lexeme is the
\* maximal run of digits, with `.` and the maximal run of digits after it if
\* and only if a digit follows the `.`; otherwise the `.` is left, and is
\* scanned as the next token.  `1.` yields Number `1`, Period, EOF.
C9_NumberToken ==
    /\ [][/\ (Scanning /\ Ch \in {"0", "1", "2", "3", "4", "5", "6", "7", "8", "9"}) =>
               LET d == DigitRunEnd(current + 1)
                   e == IF d + 2 <= Len(buf) /\ buf[d + 1] = "." /\ DigitRunEnd(d + 2) > d + 1
                        THEN DigitRunEnd(d + 2)
                        ELSE d
               IN  /\ current' = e
                   /\ Len(tokens') = Len(tokens) + 1
                   /\ SubSeq(tokens', 1, Len(tokens)) = tokens
                   /\ tokens'[Len(tokens')].ty = "Number"
                   /\ tokens'[Len(tokens')].lexeme = SubSeq(buf, current + 1, e)
                   /\ tokens'[Len(tokens')].line = line
          /\ (/\ Scanning
              /\ Ch = "."
              /\ tokens # <<>>
              /\ tokens[Len(tokens)].ty = "Number") =>
               tokens' = Append(tokens, Token("Period", <<".">>, LitNull, line))]_vars
    /\ []((pc = "done" /\ buf = <<"1", ".">>) =>
            /\ Len(tokens) = 3
            /\ tokens[1].ty = "Number" /\ tokens[1].lexeme = <<"1">>
            /\ tokens[2] = Token("Period", <<".">>, LitNull, 1)
            /\ tokens[3].ty = "EOF")

\* A number with a fraction, then a number whose dot no digit follows.
C9_Witness ==
    /\ pc = "done"
    /\ \E i, j \in 1..Len(tokens) :
        /\ tokens[i].ty = "Number" /\ tokens[i].lexeme = <<"1", "2", ".", "5">>
        /\ tokens[j].ty = "Number" /\ tokens[j].lexeme = <<"5">>
        /\ j + 1 <= Len(tokens) /\ tokens[j + 1].ty = "Period"

\* The reserved words and the kind of each.
Reserved ==
    {<<<<"a", "n", "d">>, "And">>, <<<<"c", "l", "a", "s", "s">>, "Class">>,
     <<<<"e", "l", "s", "e">>, "Else">>, <<<<"f", "o", "r">>, "For">>,
     <<<<"f", "n">>, "Fn">>, <<<<"i", "f">>, "If">>,
     <<<<"n", "u", "l", "l">>, "Null">>, <<<<"o", "r">>, "Or">>,
     <<<<"p", "r", "i", "n", "t">>, "Print">>, <<<<"r", "e", "t">>, "Return">>,
     <<<<"s", "u", "p", "e", "r">>, "Super">>, <<<<"s", "e", "l", "f">>, "This">>,
     <<<<"v", "a", "r">>, "Var">>, <<<<"w", "h", "i", "l", "e">>, "While">>,
     <<<<"T", "r", "u", "e">>, "True">>, <<<<"F", "a", "l", "s", "e">>, "False">>}

\* The 1-based index of the last character of the maximal run of
\* alphanumeric characters that starts at index from.
AlphanumericRunEnd(from) ==
    CHOOSE e \in (from - 1)..Len(buf) :
        /\ \A i \in from..e : IsAlphanumeric(buf[i])
        /\ e = Len(buf) \/ ~IsAlphanumeric(buf[e + 1])

\* C10: on an alphabetic character one token is emitted; its lexeme is the
\* character and the maximal run of alphanumeric characters after it; its
\* kind is that of the reserved word the whole lexeme equals, case and all,
\* and Ident if it equals none (`ifx`, `If`, `true`, `false`).
C10_IdentOrKeyword ==
    /\ [][(Scanning /\ IsAlphabetic(Ch)) =>
            LET e == AlphanumericRunEnd(current + 2)
                lexeme == SubSeq(buf, current + 1, e)
            IN  /\ current' = e
                /\ Len(tokens') = Len(tokens) + 1
                /\ SubSeq(tokens', 1, Len(tokens)) = tokens
                /\ tokens'[Len(tokens')].lexeme = lexeme
                /\ tokens'[Len(tokens')].line = line
                /\ \A r \in Reserved : lexeme = r[1] => tokens'[Len(tokens')].ty = r[2]
                /\ (\A r \in Reserved : lexeme # r[1]) => tokens'[Len(tokens')].ty = "Ident"]_vars
    /\ []((/\ pc = "done"
           /\ buf \in {<<"i", "f", "x">>, <<"I", "f">>, <<"t", "r", "u", "e">>,
                       <<"f", "a", "l", "s", "e">>}) =>
            Len(tokens) = 2 /\ tokens[1].ty = "Ident" /\ tokens[1].lexeme = buf)

\* A reserved word and an identifier in one finished scan.
C10_Witness ==
    /\ pc = "done"
    /\ \E i, j \in 1..Len(tokens) :
        /\ tokens[i].ty = "Var" /\ tokens[i].lexeme = <<"v", "a", "r">>
        /\ tokens[j].ty = "Ident" /\ tokens[j].lexeme = <<"x">>

\* C11: a token carries a literal other than Null if and only if its kind
\* is Number, String, True or False: True carries Bool(true), False carries
\* Bool(false), String a text, Number a number; every other token, the null
\* keyword, identifiers and EOF included, carries Null.
C11_LiteralByKind ==
    \A i \in 1..Len(tokens) :
        LET t == tokens[i]
        IN  /\ t.literal.tag # "Null" <=> t.ty \in {"Number", "String", "True", "False"}
            /\ t.ty = "True" => t.literal = [tag |-> "Bool", val |-> TRUE]
            /\ t.ty = "False" => t.literal = [tag |-> "Bool", val |-> FALSE]
            /\ t.ty = "String" => t.literal.tag = "String"
            /\ t.ty = "Number" => t.literal.tag = "Number"
            /\ t.literal.tag = "Null" => t.literal = [tag |-> "Null", val |-> <<>>]

\* A finished scan with a token of each kind that carries a literal, a null
\* keyword and an identifier.
C11_Witness ==
    /\ pc = "done"
    /\ \A k \in {"True", "False", "Number", "String", "Null", "Ident", "EOF"} :
        \E i \in 1..Len(tokens) : tokens[i].ty = k

\* The spans [from, to) of the scan_token calls that add a token, in order,
\* when scan_tokens runs from scanner s.
RECURSIVE SpanTrace(_)
SpanTrace(s) ==
    IF s.pc # "scan" \/ ReachedEof(s) THEN <<>>
    ELSE LET t == ScanToken(s)
         IN  (IF Len(t.tokens) > Len(s.tokens)
              THEN <<[from |-> t.start, to |-> t.current]>>
              ELSE <<>>) \o SpanTrace(t)

\* C12: the lexeme of every token but EOF is the source text of the span
\* [start, current) consumed for it, and the spans of successive tokens are
\* disjoint and in source order: each starts at or after the end of the one
\* before.
C12_LexemesAreSpans ==
    /\ [][(tokens' # tokens /\ pc' = "scan") =>
            /\ start' = current
            /\ current' > start'
            /\ tokens' = Append(tokens, tokens'[Len(tokens')])
            /\ tokens'[Len(tokens')].lexeme = SubSeq(buf, start' + 1, current')]_vars
    /\ [](LET spans == SpanTrace(New(buf))
          IN  \A i \in 1..Len(tokens) :
                tokens[i].ty # "EOF" =>
                    /\ i <= Len(spans)
                    /\ 0 <= spans[i].from
                    /\ spans[i].from < spans[i].to
                    /\ spans[i].to <= Len(buf)
                    /\ tokens[i].lexeme = SubSeq(buf, spans[i].from + 1, spans[i].to)
                    /\ i > 1 => spans[i - 1].to <= spans[i].from)

\* A finished scan of `var x = 12.5;`: five tokens with blanks between some.
C12_Witness ==
    /\ pc = "done"
    /\ Len(tokens) = 6
    /\ tokens[2].lexeme = <<"x">>
    /\ tokens[4].lexeme = <<"1", "2", ".", "5">>

\* The expected sequences expect_many is tried with: those of scan_token
\* and others of length 0 to 2.
ExpectedTexts ==
    UNION {[1..n -> {"=", "/", "a"}] : n \in 0..2}

RECURSIVE CommentTrace(_)
CommentTrace(s) ==
    IF s.pc # "scan" \/ ReachedEof(s) THEN {}
    ELSE LET t == ScanToken(s)
         IN  (IF CharAt(s) = "/" /\ t.current > s.current + 1
              THEN (s.current + 1)..t.current
              ELSE {}) \cup CommentTrace(t)

\* The positions of the buffer the lexeme of the i-th token was taken from.
LexemePositions(i) ==
    LET spans == SpanTrace(New(buf))
    IN  IF i <= Len(spans) THEN (spans[i].from + 1)..spans[i].to ELSE {}

HasWhitespace(text) ==
    \E k \in 1..Len(text) : text[k] \in {" ", "\t", "\r", "\n"}

\* C14 as stated: no token's lexeme contains a space, tab, carriage return
\* or newline, nor a character consumed as part of a line comment.
C14_NoWhitespaceOrCommentInLexeme ==
    \A i \in 1..Len(tokens) :
        /\ ~HasWhitespace(tokens[i].lexeme)
        /\ LexemePositions(i) \cap CommentTrace(New(buf)) = {}

\* C14, amended: no lexeme other than that of a String token contains a
\* space, tab, carriage return or newline, and no token's lexeme, that of a
\* String token included, contains a character consumed as part of a line
\* comment.
C14_NoWhitespaceOutsideStrings ==
    \A i \in 1..Len(tokens) :
        /\ tokens[i].ty # "String" => ~HasWhitespace(tokens[i].lexeme)
        /\ LexemePositions(i) \cap CommentTrace(New(buf)) = {}

\* The scan of `"a b"<tab>// c<cr><newline>x` is complete: a String token
\* with a space in it, then whitespace and a comment between two tokens.
C14_Witness ==
    /\ pc = "done"
    /\ Len(tokens) = 3
    /\ tokens[1].ty = "String" /\ HasWhitespace(tokens[1].lexeme)
    /\ tokens[2] = Token("Ident", <<"x">>, LitNull, 2)
    /\ CommentTrace(New(buf)) = 7..11
    /\ \E k \in 1..Len(buf) : buf[k] = "\t"

\* C16: in every reachable state 0 <= start <= current <= length of the
\* buffer, and no index past the end of the buffer has been read: advance
\* is never called with the cursor at the end of the input.  (The cursor
\* only grows inside a step, so its bound at the end of the step bounds it
\* throughout; peek, peek_ahead, the slice of expect_many and span_string
\* are evaluated at the indices the code reads.)
C16_IndicesInBounds ==
    /\ pc # "bounds"
    /\ 0 <= start
    /\ start <= current
    /\ current <= Len(buf)
    /\ current < Len(buf) => Peek(Self) = buf[current + 1]
    /\ current >= Len(buf) => Peek(Self) = NUL /\ PeekAhead(Self, 1) = NUL

\* Scans that end inside a loop exactly at the end of the input: a number
\* with a fraction as the whole buffer, and a string left open.
C16_Witness ==
    \/ /\ pc = "done"
       /\ Len(tokens) = 2
       /\ tokens[1].ty = "Number"
       /\ tokens[1].lexeme = buf
       /\ \E k \in 1..Len(buf) : buf[k] = "."
    \/ /\ pc = "scan"
       /\ current = Len(buf)
       /\ start = 0
       /\ Len(buf) > 1
       /\ buf[1] = "\""
       /\ Len(errors) = 1

\* C17: every step keeps the tokens emitted so far and appends at most one;
\* a step on a space, carriage return, tab, newline, on a line comment, on
\* an invalid character or on a string left open appends none; of these the
\* whitespace, comment and invalid-character steps keep the line counter,
\* the newline step adds one to it and the string step adds the number of
\* newlines of the string.  (A line comment is a `/` step that consumes the
\* `/` after it.)
C17_AppendOnly ==
    [][/\ Len(tokens) <= Len(tokens')
       /\ Len(tokens') <= Len(tokens) + 1
       /\ SubSeq(tokens', 1, Len(tokens)) = tokens
       /\ (Scanning /\ Ch \in {" ", "\r", "\t"}) =>
              tokens' = tokens /\ line' = line /\ errors' = errors
       /\ (Scanning /\ Ch = "\n") =>
              tokens' = tokens /\ line' = line + 1 /\ errors' = errors
       /\ (Scanning /\ Ch = "/" /\ current' > current + 1) =>
              tokens' = tokens /\ line' = line /\ errors' = errors
       /\ (Scanning /\ ~Accepted(Ch)) =>
              tokens' = tokens /\ line' = line
       /\ (Scanning /\ Ch = "\"" /\ \A j \in (current + 2)..Len(buf) : buf[j] # "\"") =>
              tokens' = tokens /\ line' = line + Newlines(current + 2, Len(buf))
       /\ (Scanning /\ Len(tokens') > Len(tokens)) =>
              /\ errors' = errors
              /\ Ch # "\"" => line' = line]_vars

\* The scan of `a <tab><cr><newline>// c<newline>@ b "x<newline>y` is
\* complete: every kind of step that emits nothing has been taken between
\* and after the tokens a and b.
C17_Witness ==
    /\ pc = "done"
    /\ Len(buf) = 18
    /\ buf[11] = "@"
    /\ Len(tokens) = 3
    /\ tokens[1] = Token("Ident", <<"a">>, LitNull, 1)
    /\ tokens[2] = Token("Ident", <<"b">>, LitNull, 3)
    /\ tokens[3] = Token("EOF", <<>>, LitNull, 4)
    /\ Len(errors) = 2

\* One or more decimal digits, then optionally one `.` and one or more
\* decimal digits, and nothing else.
IsDecimalText(text) ==
    LET IsDigits(from, to) ==
            /\ from <= to
            /\ \A i \in from..to :
                   text[i] \in {"0", "1", "2", "3", "4", "5", "6", "7", "8", "9"}
    IN  \/ IsDigits(1, Len(text))
        \/ \E k \in 1..Len(text) :
               IsDigits(1, k - 1) /\ text[k] = "." /\ IsDigits(k + 1, Len(text))

\* C18: the span expect_number hands to the float parser is always one or
\* more decimal digits, optionally followed by one `.` and one or more
\* decimal digits; the parse succeeds and expect("Invalid digit") never
\* fires, for any input.
C18_ParserInputIsDecimal ==
    /\ [](pc # "panic")
    /\ [][(Scanning /\ IsDigit(Ch)) =>
            LET span == SubSeq(buf, current + 1, current')
            IN  /\ start' = current
                /\ IsDecimalText(span)
                /\ ParseF64(span).ok
                /\ pc' = "scan"]_vars

\* `11.1` followed by a second `.` has been scanned: the parser was handed
\* `11.1` and the `.` after it was left for the next step.
C18_Witness ==
    /\ pc = "scan"
    /\ current = 4
    /\ buf = <<"1", "1", ".", "1", ".", "1">>
    /\ Len(tokens) = 1
    /\ tokens[1].ty = "Number"
    /\ tokens[1].literal = LitNumber([mant |-> 111, scale |-> 1])

====
